---- MODULE Spec2Model ----
(***************************************************************************)
(* granite: TemporaryProject, Snapshot and SnapshotDiff                    *)
(* (src/granite/environment.py, src/granite/utils.py).                     *)
(*                                                                         *)
(* A string is a sequence of one-character strings, so that the path       *)
(* functions are modelled by what they do to the characters.  os.path is   *)
(* posixpath: "/" is the separator and "\" an ordinary character that      *)
(* path_as_key replaces at the very end.                                   *)
(*                                                                         *)
(* File and directory names are one character long and contain neither     *)
(* separator ("Always use forward slashes in paths", environment.py:369).  *)
(* md5 is modelled as collision free.                                      *)
(*                                                                         *)
(* Spec is test_diff_attributes with any writes, removals and touches      *)
(* between its two snapshots; SpecLookup asks a snapshot about paths;      *)
(* SpecFault takes a snapshot of a directory the operating system partly   *)
(* refuses to serve; SpecStat adds os.chmod and the subtraction of 5.      *)
(* SpecProject is the life of a TemporaryProject from construction to      *)
(* teardown; SpecCopy is copy_project; SpecRender is SimpleFile; SpecGlob  *)
(* is TemporaryProject.glob; SpecIO is the context managers of             *)
(* src/granite/io.py, entered and left in any nesting.                     *)
(***************************************************************************)
EXTENDS Integers, Sequences, FiniteSets, TLC

VARIABLES
    pc,      \* where the test case stands: "setup", "mutate" or "compare"
    path,    \* TemporaryProject.path: the project directory, as given
    tree,    \* the directory's content: [dirs, files, faulty]
    now,     \* the clock the file system stamps modification times with
    s1,      \* the first Snapshot object: None, then Some(snapshot)
    s2,      \* the second Snapshot object: None, then Some(snapshot)
    diff,    \* the SnapshotDiff object: None, then Some(diff)
    ret,     \* what the last recorded call returned or raised, or None
    taken,   \* history: the directory's content when each snapshot was taken
    preserve,  \* TemporaryProject.preserve
    simple,    \* the SimpleFile object: None, then Some([ADD_NEWLINE, content])
    sys,       \* the streams sys.stdout and sys.stderr are bound to
    frames     \* the with-blocks of granite.io that are open, innermost last

vars == <<pc, path, tree, now, s1, s2, diff, ret, taken, preserve, simple, sys, frames>>

\* what the test cases of the snapshot do not touch
others == <<preserve, simple, sys, frames>>

\* An attribute that may be None holds None or Some(value).
None == << >>
Some(v) == <<v>>
Val(opt) == opt[1]

\* ------------------------------------------------------------------ bounds

\* the clock stops here
MaxTime == 1

\* CHUNK_SIZE_MB scaled down to the size of the modelled contents
ChunkSize == 1

\* the strings a SimpleFile is given before it is rendered
MaxContent == 2

\* the with-blocks of granite.io that are open at a time
MaxDepth == 2

\* ----------------------------------------------------------------- strings

SLASH == "/"
BACKSLASH == "\\"
DOT == "."
SPACE == " "
NEWLINE == "\n"

EMPTY == << >>
CURDIR == <<DOT>>
PARDIR == <<DOT, DOT>>

startswith(s, prefix) ==
    /\ Len(s) >= Len(prefix)
    /\ SubSeq(s, 1, Len(prefix)) = prefix

endswith(s, suffix) ==
    /\ Len(s) >= Len(suffix)
    /\ SubSeq(s, Len(s) - Len(suffix) + 1, Len(s)) = suffix

RECURSIVE SplitFrom(_, _, _, _, _)
SplitFrom(s, sep, i, cur, acc) ==
    IF i > Len(s) THEN Append(acc, cur)
    ELSE IF s[i] = sep THEN SplitFrom(s, sep, i + 1, EMPTY, Append(acc, cur))
    ELSE SplitFrom(s, sep, i + 1, Append(cur, s[i]), acc)

\* str.split(sep): the pieces between the separators, empty ones included
split(s, sep) == SplitFrom(s, sep, 1, EMPTY, << >>)

RECURSIVE JoinFrom(_, _, _)
JoinFrom(sep, parts, i) ==
    IF i > Len(parts) THEN EMPTY
    ELSE IF i = Len(parts) THEN parts[i]
    ELSE parts[i] \o sep \o JoinFrom(sep, parts, i + 1)

\* sep.join(parts)
strjoin(sep, parts) == JoinFrom(sep, parts, 1)

\* str.replace(old, new) for one-character old and new
replace(s, old, new) == [i \in 1..Len(s) |-> IF s[i] = old THEN new ELSE s[i]]

\* [x for x in parts if x]
NonEmpty(parts) == SelectSeq(parts, LAMBDA x : x # EMPTY)

\* --------------------------------------------------------------- posixpath

\* the process's working directory
Cwd == <<SLASH, "w">>

isabs(s) == startswith(s, <<SLASH>>)

\* os.path.join(a, b)
join(a, b) ==
    IF startswith(b, <<SLASH>>) THEN b
    ELSE IF a = EMPTY \/ endswith(a, <<SLASH>>) THEN a \o b
    ELSE a \o <<SLASH>> \o b

\* os.path.split(p): (head, tail), the head without its trailing slashes
RECURSIVE LastSlash(_, _)
LastSlash(s, i) == IF i = 0 \/ s[i] = SLASH THEN i ELSE LastSlash(s, i - 1)

RECURSIVE rstripSlash(_)
rstripSlash(s) ==
    IF s # EMPTY /\ s[Len(s)] = SLASH THEN rstripSlash(SubSeq(s, 1, Len(s) - 1))
    ELSE s

AllSlashes(s) == \A i \in 1..Len(s) : s[i] = SLASH

pathsplit(p) ==
    LET i    == LastSlash(p, Len(p))
        head == SubSeq(p, 1, i)
        tail == SubSeq(p, i + 1, Len(p))
    IN  <<IF head # EMPTY /\ ~AllSlashes(head) THEN rstripSlash(head) ELSE head,
          tail>>

RECURSIVE NormComps(_, _, _, _)
NormComps(comps, i, initial_slashes, new_comps) ==
    IF i > Len(comps) THEN new_comps
    ELSE
        LET comp == comps[i] IN
        IF comp = EMPTY \/ comp = CURDIR
            THEN NormComps(comps, i + 1, initial_slashes, new_comps)
        ELSE IF \/ comp # PARDIR
                \/ (initial_slashes = 0 /\ new_comps = << >>)
                \/ (new_comps # << >> /\ new_comps[Len(new_comps)] = PARDIR)
            THEN NormComps(comps, i + 1, initial_slashes, Append(new_comps, comp))
        ELSE IF new_comps # << >>
            THEN NormComps(comps, i + 1, initial_slashes,
                           SubSeq(new_comps, 1, Len(new_comps) - 1))
        ELSE NormComps(comps, i + 1, initial_slashes, new_comps)

\* os.path.normpath(p)
normpath(p) ==
    IF p = EMPTY THEN CURDIR
    ELSE
        LET initial_slashes ==
                IF ~startswith(p, <<SLASH>>) THEN 0
                ELSE IF startswith(p, <<SLASH, SLASH>>)
                        /\ ~startswith(p, <<SLASH, SLASH, SLASH>>) THEN 2
                ELSE 1
            comps == NormComps(split(p, SLASH), 1, initial_slashes, << >>)
            body  == strjoin(<<SLASH>>, comps)
            out   == [i \in 1..initial_slashes |-> SLASH] \o body
        IN  IF out = EMPTY THEN CURDIR ELSE out

\* os.path.abspath(p)
abspath(p) == normpath(IF isabs(p) THEN p ELSE join(Cwd, p))

RECURSIVE CommonLen(_, _, _)
CommonLen(a, b, i) ==
    IF i < Len(a) /\ i < Len(b) /\ a[i + 1] = b[i + 1]
        THEN CommonLen(a, b, i + 1)
    ELSE i

RECURSIVE JoinAll(_, _)
JoinAll(parts, i) ==
    IF i = 1 THEN parts[1] ELSE join(JoinAll(parts, i - 1), parts[i])

\* os.path.relpath(p, start), for a non-empty p
relpath(p, start) ==
    LET start_list == NonEmpty(split(abspath(start), SLASH))
        path_list  == NonEmpty(split(abspath(p), SLASH))
        i          == CommonLen(start_list, path_list, 0)
        rel_list   == [k \in 1..(Len(start_list) - i) |-> PARDIR]
                          \o SubSeq(path_list, i + 1, Len(path_list))
    IN  IF rel_list = << >> THEN CURDIR ELSE JoinAll(rel_list, Len(rel_list))

\* mutant: the backslashes are left in the key
path_as_key_no_replace(p, relative_to) ==
    normpath(relpath(abspath(p), relative_to))

\* granite.utils.path_as_key(path, relative_to)
path_as_key(p, relative_to) ==
    replace(normpath(relpath(abspath(p), relative_to)), BACKSLASH, SLASH)

\* ------------------------------------------------------------- file system

\* A node is the sequence of names leading to it from the project directory.
\* tree.dirs is the set of directory nodes, tree.files maps each file node to
\* [content, st_mtime, st_mode], and tree.faulty is the set of nodes the
\* operating system refuses to serve: a directory in it cannot be listed, a file
\* in it cannot be stat-ed, opened or read.

\* where the project directory is, and the two ways the test case may name it
ProjectDir == <<SLASH, "w", SLASH, "r">>
Roots == {ProjectDir, <<"r">>}

\* a directory inside the project directory, where test_custom_temp_dir puts
\* a project of its own
CustomDir == <<SLASH, "w", SLASH, "r", SLASH, "a">>
TableRoots == Roots \cup {CustomDir}

ProjectSegs == NonEmpty(split(ProjectDir, SLASH))

Outside == <<<<"outside">>>>

\* the node a path names, Outside when it is not under the project directory
node_of(p) ==
    LET segs == NonEmpty(split(abspath(p), SLASH)) IN
    IF Len(segs) >= Len(ProjectSegs) /\ SubSeq(segs, 1, Len(ProjectSegs)) = ProjectSegs
        THEN SubSeq(segs, Len(ProjectSegs) + 1, Len(segs))
    ELSE Outside

\* the files of the model and the directories that hold them
FileNodes == {<<<<"b">>>>, <<<<"c">>>>, <<<<"a">>, <<"b">>>>, <<<<"a">>, <<"a">>, <<"b">>>>}
DirNodes == {<< >>, <<<<"a">>>>, <<<<"a">>, <<"a">>>>}

\* the path of a node: its names joined onto the root, as os.walk joins them
PathStr(root, n) == JoinAll(<<root>> \o n, Len(n) + 1)

\* the path of a node relative to the project directory
RelStr(n) == strjoin(<<SLASH>>, n)

Parent(n) == SubSeq(n, 1, Len(n) - 1)
Name(n) == n[Len(n)]
Prefixes(n) == {SubSeq(n, 1, k) : k \in 0..Len(n)}

\* The path functions are evaluated once for the paths the model uses and looked
\* up afterwards; any other path is computed on the spot.
WalkPaths == {PathStr(r, n) : r \in TableRoots, n \in FileNodes \cup DirNodes}

NodeTable == [p \in WalkPaths |-> node_of(p)]
NodeOf(p) == IF p \in WalkPaths THEN NodeTable[p] ELSE node_of(p)

isfile(p) == NodeOf(p) \in DOMAIN tree.files
isdir(p) == NodeOf(p) \in tree.dirs
exists(p) == isfile(p) \/ isdir(p)

\* os.listdir, as os.walk splits it: the files and the sub-directories of p
FileNamesIn(p) == {Name(f) : f \in {g \in DOMAIN tree.files : Parent(g) = NodeOf(p)}}
DirNamesIn(p) ==
    {Name(d) : d \in {e \in tree.dirs : e # << >> /\ Parent(e) = NodeOf(p)}}

\* ------------------------------------------------------- TemporaryProject

\* TemporaryProject.abspath(filename)
project_abspath(root, filename) == normpath(join(root, filename))

AllSpaces(line) == \A i \in 1..Len(line) : line[i] = SPACE

RECURSIVE LeadingSpaces(_, _)
LeadingSpaces(line, i) ==
    IF i < Len(line) /\ line[i + 1] = SPACE THEN LeadingSpaces(line, i + 1) ELSE i

SetMin(S) == CHOOSE m \in S : \A n \in S : m <= n

\* textwrap.dedent(text), for text indented with spaces
dedent(text) ==
    LET raw     == split(text, NEWLINE)
        lines   == [i \in 1..Len(raw) |-> IF AllSpaces(raw[i]) THEN EMPTY ELSE raw[i]]
        indents == {LeadingSpaces(lines[i], 0) : i \in {j \in 1..Len(lines) : lines[j] # EMPTY}}
        margin  == IF indents = {} THEN 0 ELSE SetMin(indents)
        cut     == [i \in 1..Len(lines) |->
                       IF lines[i] = EMPTY THEN EMPTY
                       ELSE SubSeq(lines[i], margin + 1, Len(lines[i]))]
    IN  strjoin(<<NEWLINE>>, cut)

\* the permission bits of a file open() creates, and those chmod can set
DefaultMode == "rw-"
Modes == {"rw-", "r--"}

\* the calls of write, remove and touch the test case makes
WriteNames == {RelStr(n) : n \in FileNodes}
WriteCalls ==
    {[contents |-> EMPTY, mode |-> <<"w">>, dedent |-> TRUE],
     [contents |-> <<SPACE, "h", "i">>, mode |-> <<"w">>, dedent |-> TRUE],
     [contents |-> <<"h", "i">>, mode |-> <<"a">>, dedent |-> FALSE]}

\* TemporaryProject.write, lines 422-423 and 430: the directory and the file
write_target(root, filename) ==
    LET head == pathsplit(filename)[1]
        tail == pathsplit(filename)[2]
        dir  == project_abspath(root, head)
    IN  [dir |-> dir, file |-> join(dir, tail)]

WriteTargetTable == [r \in TableRoots |-> [f \in WriteNames |-> write_target(r, f)]]
WriteTarget(root, filename) ==
    IF root \in TableRoots /\ filename \in WriteNames THEN WriteTargetTable[root][filename]
    ELSE write_target(root, filename)

\* what TemporaryProject.write(filename, contents, mode, dedent) leaves on disk
written(filename, contents, mode, dedent_flag) ==
    LET target == WriteTarget(path, filename)
        dirs1  == IF exists(target.dir) THEN tree.dirs
                  ELSE tree.dirs \cup Prefixes(NodeOf(target.dir))
        data   == IF dedent_flag /\ \A i \in 1..Len(mode) : mode[i] # "b"
                      THEN dedent(contents)
                  ELSE contents
        node   == NodeOf(target.file)
        rec    == [content  |-> data,
                   st_mtime |-> now,
                   st_mode  |-> IF node \in DOMAIN tree.files
                                    THEN tree.files[node].st_mode
                                ELSE DefaultMode]
    IN  [tree EXCEPT !.dirs  = dirs1,
                     !.files = [f \in DOMAIN tree.files \cup {node} |->
                                   IF f = node THEN rec ELSE tree.files[f]]]

\* TemporaryProject.write
Write(filename, contents, mode, dedent_flag) ==
    /\ pc = "mutate"
    /\ tree' = written(filename, contents, mode, dedent_flag)
    /\ UNCHANGED <<pc, path, now, s1, s2, diff, ret, taken, others>>

AbspathTable == [r \in TableRoots |-> [f \in WriteNames |-> project_abspath(r, f)]]

\* the node self.abspath(filename) names
ProjectNode(filename) ==
    NodeOf(IF path \in TableRoots /\ filename \in WriteNames THEN AbspathTable[path][filename]
           ELSE project_abspath(path, filename))

\* TemporaryProject.remove: os.remove raises when there is no such file
Remove(filename) ==
    /\ pc = "mutate"
    /\ tree' = IF ProjectNode(filename) \in DOMAIN tree.files
                   THEN [tree EXCEPT !.files =
                            [f \in DOMAIN tree.files \ {ProjectNode(filename)}
                                |-> tree.files[f]]]
               ELSE tree
    /\ UNCHANGED <<pc, path, now, s1, s2, diff, ret, taken, others>>

\* TemporaryProject.touch with times=None: open() raises when there is no such
\* file, os.utime then stamps the file with the current time
Touch(filename) ==
    /\ pc = "mutate"
    /\ IF ProjectNode(filename) \in DOMAIN tree.files
           THEN /\ tree' = [tree EXCEPT !.files[ProjectNode(filename)].st_mtime = now]
                /\ UNCHANGED ret
       ELSE /\ ret' = Some([op |-> "touch", arg |-> filename,
                            val |-> [OSError |-> filename]])
            /\ UNCHANGED tree
    /\ UNCHANGED <<pc, path, now, s1, s2, diff, taken, others>>

\* time passes
Tick ==
    /\ pc = "mutate"
    /\ now < MaxTime
    /\ now' = now + 1
    /\ UNCHANGED <<pc, path, tree, s1, s2, diff, ret, taken, others>>

\* ----------------------------------------------------------------- Snapshot

Ord(c) == CASE c = "h" -> 104 [] c = "i" -> 105 [] c = SPACE -> 32 [] OTHER -> 0

\* hashlib.md5: update() feeds bytes, hexdigest() encodes all bytes fed so far
md5_new == << >>
md5_update(h, chunk) == h \o chunk
md5_hexdigest(h) == [i \in 1..Len(h) |-> Ord(h[i])]

\* f.read(n) at offset pos
read(content, pos, n) ==
    SubSeq(content, pos + 1, IF pos + n < Len(content) THEN pos + n ELSE Len(content))

RECURSIVE HashChunks(_, _, _)
HashChunks(content, pos, h) ==
    LET chunk == read(content, pos, ChunkSize) IN
    IF chunk = EMPTY THEN h
    ELSE HashChunks(content, pos + Len(chunk), md5_update(h, chunk))

\* mutant: the digest is taken of the file's name, not of its content
_hash_file_of_name(filename) == md5_hexdigest(md5_update(md5_new, filename))

\* Snapshot._hash_file(filename)
_hash_file(filename) ==
    md5_hexdigest(HashChunks(tree.files[NodeOf(filename)].content, 0, md5_new))

\* os.stat(filename), the fields the model keeps: st_mode stands for the fields
\* the diff never reads
stat(filename) ==
    LET f == tree.files[NodeOf(filename)] IN
    [st_size |-> Len(f.content), st_mtime |-> f.st_mtime, st_mode |-> f.st_mode]

\* Snapshot._create_stat(stat_result, md5)
_create_stat(stat_result, md5) ==
    [st_size  |-> stat_result.st_size,
     st_mtime |-> stat_result.st_mtime,
     st_mode  |-> stat_result.st_mode,
     md5      |-> md5]

\* mutant: the walk does not descend into sub-directories
walk_top_only(top) ==
    IF ~isdir(top) \/ NodeOf(top) \in tree.faulty THEN {} ELSE {join(top, f) : f \in FileNamesIn(top)}

\* os.walk(top), as the paths os.path.join(root, name) of the files it yields;
\* onerror is None, so a directory that cannot be listed yields nothing
RECURSIVE walk(_)
walk(top) ==
    IF ~isdir(top) \/ NodeOf(top) \in tree.faulty THEN {}
    ELSE {join(top, f) : f \in FileNamesIn(top)}
             \cup UNION {walk(join(top, d)) : d \in DirNamesIn(top)}

\* mutant: a file that cannot be read is passed over
walk_errors_skipped(top) == {}

\* The files at which os.stat or open raise first, for the orders in which a
\* directory may be listed: os.walk is top-down, so the files of a directory
\* come before the files of its sub-directories.
RECURSIVE walk_errors(_)
walk_errors(top) ==
    IF ~isdir(top) \/ NodeOf(top) \in tree.faulty THEN {}
    ELSE LET here == {join(top, Name(g)) :
                         g \in {f \in DOMAIN tree.files \cap tree.faulty :
                                    Parent(f) = NodeOf(top)}}
         IN  IF here # {} THEN here
             ELSE UNION {walk_errors(join(top, d)) : d \in DirNamesIn(top)}

KeyTable == [r \in Roots |-> [p \in WalkPaths |-> path_as_key(p, r)]]
PathAsKey(p, relative_to) ==
    IF relative_to \in Roots /\ p \in WalkPaths THEN KeyTable[relative_to][p]
    ELSE path_as_key(p, relative_to)

\* a snapshot that also keeps an entry for every directory
Snapshot_of_directories_too(directory) ==
    LET found == walk(directory)
        keys  == {PathAsKey(p, directory) : p \in found}
        dirs  == {RelStr(d) : d \in tree.dirs \ {<< >>}}
    IN  [root  |-> directory,
         paths |-> [k \in keys \cup dirs |->
                       IF k \in keys
                           THEN LET p == CHOOSE q \in found : PathAsKey(q, directory) = k
                                IN  _create_stat(stat(p), _hash_file(p))
                       ELSE [st_size |-> 0, st_mtime |-> 0, st_mode |-> DefaultMode,
                             md5 |-> md5_hexdigest(md5_new)]]]

\* Snapshot.__init__(directory), when nothing raises
Snapshot(directory) ==
    LET found == walk(directory)
        keys  == {PathAsKey(p, directory) : p \in found}
    IN  [root  |-> directory,
         paths |-> [k \in keys |->
                       LET p == CHOOSE q \in found : PathAsKey(q, directory) = k
                       IN  _create_stat(stat(p), _hash_file(p))]]

\* Snapshot(directory): the object, or the error of the first file that raises
SnapshotOutcomes(directory) ==
    IF walk_errors(directory) = {} THEN {Snapshot(directory)}
    ELSE {[OSError |-> p] : p \in walk_errors(directory)}

\* Values that are not str: an int, None, bytes, a list.  A str is a sequence
\* of one-character strings; another value is its type's name and its repr,
\* a list its type's name and its items.
TypeNames == {"int", "NoneType", "bytes", "list"}
NonStrings == {<<"int", "5">>, <<"NoneType", "None">>, <<"bytes", "b">>}
type(v) == IF v # EMPTY /\ v[1] \in TypeNames THEN v[1] ELSE "str"
isinstance(v, cls) == type(v) = cls

\* raise ValueError(...), as what _massage_path hands its caller; the caller
\* does not catch it, so the caller raises the same
Exceptions == {"ValueError", "TypeError"}
ValueError(v) == <<"ValueError">> \o v
raised(k) == k # EMPTY /\ k[1] \in Exceptions
propagate(k) == k[1] :> Tail(k)

\* mutant: a relative path is not joined onto the snapshot's root
_massage_path_no_join(self, p) ==
    IF ~isinstance(p, "str") THEN ValueError(p) ELSE path_as_key(p, self.root)

\* mutant: the path's type is not looked at
_massage_path_unvalidated(self, p) ==
    path_as_key(IF ~isabs(p) THEN join(self.root, p) ELSE p, self.root)

\* mutant: the wrong type is reported as a TypeError
_massage_path_type_error(self, p) ==
    IF ~isinstance(p, "str") THEN <<"TypeError">> \o p
    ELSE path_as_key(IF ~isabs(p) THEN join(self.root, p) ELSE p, self.root)

\* Snapshot._massage_path(path)
_massage_path(self, p) ==
    IF ~isinstance(p, "str") THEN ValueError(p)
    ELSE path_as_key(IF ~isabs(p) THEN join(self.root, p) ELSE p, self.root)

\* spellings of a file's path: relative to the root, with a redundant "./" or
\* "x/../" in front, with backslashes between the names, and absolute
Spellings(n) ==
    {RelStr(n),
     <<DOT, SLASH>> \o RelStr(n),
     <<"x", SLASH, DOT, DOT, SLASH>> \o RelStr(n),
     strjoin(<<BACKSLASH>>, n),
     <<DOT, SLASH>> \o strjoin(<<BACKSLASH>>, n),
     PathStr(ProjectDir, n)}

\* the same with the redundant segment set off by a backslash
BackslashSpellings(n) ==
    {<<DOT, BACKSLASH>> \o strjoin(<<BACKSLASH>>, n),
     <<"x", BACKSLASH, DOT, DOT, BACKSLASH>> \o strjoin(<<BACKSLASH>>, n)}

\* other paths: above the project, beside it, back into it, a directory, the
\* empty path and an unknown name
OtherPaths ==
    {<<DOT, DOT, SLASH, "b">>, <<SLASH, "b">>, <<SLASH, "w", SLASH, "b">>,
     <<DOT, DOT, SLASH, "r", SLASH, "b">>, <<"a">>, <<"a", SLASH>>, EMPTY, <<"x">>}

\* the paths membership and lookup are asked about
LookupPaths ==
    UNION {Spellings(n) \cup BackslashSpellings(n) : n \in FileNodes} \cup OtherPaths

MassageTable ==
    [r \in Roots |-> [p \in LookupPaths |-> _massage_path([root |-> r], p)]]
MassagePath(self, p) ==
    IF self.root \in Roots /\ p \in LookupPaths THEN MassageTable[self.root][p]
    ELSE _massage_path(self, p)

\* every value membership and lookup are asked about
PathArgs == LookupPaths \cup NonStrings

\* "path in self.paths" and "self.paths[path]" once _massage_path has run
contains_key(self, key) ==
    IF raised(key) THEN propagate(key) ELSE key \in DOMAIN self.paths

getitem_key(self, key) ==
    IF raised(key) THEN propagate(key)
    ELSE IF key \in DOMAIN self.paths THEN self.paths[key]
    ELSE [KeyError |-> key]

\* a lookup that hands out a record of None fields for a key it does not have
getitem_key_default(self, key) ==
    IF raised(key) THEN propagate(key)
    ELSE IF key \in DOMAIN self.paths THEN self.paths[key]
    ELSE [st_size |-> None, st_mtime |-> None, st_mode |-> None, md5 |-> None]

\* Snapshot.__contains__(path)
__contains__(self, p) == contains_key(self, MassagePath(self, p))

\* mutant: the record is made from the file as it is when it is looked up
__getitem__live(self, p) ==
    IF MassagePath(self, p) \in DOMAIN self.paths /\ isfile(join(self.root, p))
        THEN _create_stat(stat(join(self.root, p)), _hash_file(join(self.root, p)))
    ELSE [KeyError |-> MassagePath(self, p)]

\* mutant: a path that is not tracked gets a record of None fields
__getitem__default(self, p) == getitem_key_default(self, MassagePath(self, p))

\* Snapshot.__getitem__(path)
__getitem__(self, p) == getitem_key(self, MassagePath(self, p))

\* Snapshot.__iter__()
__iter__(self) == DOMAIN self.paths

\* ------------------------------------------------------------- SnapshotDiff

\* the snapshot object a name refers to
Snap(ref) == IF ref = "s1" THEN Val(s1) ELSE Val(s2)

Attrs == {"_added", "_removed", "_modified", "_touched"}

\* SnapshotDiff.__init__(a, b): nothing is computed yet; calls counts how often
\* the getter of each attribute has run
SnapshotDiff(a, b) ==
    [a |-> a, b |-> b,
     _added |-> None, _removed |-> None, _modified |-> None, _touched |-> None,
     calls |-> [attr \in Attrs |-> 0]]

\* what the test case subtracts: its two snapshots and the integer 5
Operands == {"s1", "s2", "5"}
isinstance_Snapshot(other) == other \in {"s1", "s2"}

\* mutant: the operand's type is not looked at
__sub__unchecked(self, other) == SnapshotDiff(self, other)

\* Snapshot.__sub__(other)
__sub__(self, other) ==
    IF ~isinstance_Snapshot(other) THEN [TypeError |-> other]
    ELSE SnapshotDiff(self, other)

\* mutant: the two snapshots are taken the wrong way round
added_swapped(d) ==
    {p \in __iter__(Snap(d.b)) : ~__contains__(Snap(d.a), p)}

\* mutant: the membership test is missing
added_all(d) == __iter__(Snap(d.a))

\* SnapshotDiff.added
added(d) ==
    {p \in __iter__(Snap(d.a)) : ~__contains__(Snap(d.b), p)}

\* mutant: the two snapshots are taken the wrong way round
removed_swapped(d) ==
    {p \in __iter__(Snap(d.a)) : ~__contains__(Snap(d.b), p)}

\* a diff that never reports a removal
removed_none(d) == {}

\* SnapshotDiff.removed
removed(d) ==
    {p \in __iter__(Snap(d.b)) : ~__contains__(Snap(d.a), p)}

\* mutant: a file counts as modified only when its timestamp changed as well
modified_needs_mtime(d) ==
    {p \in __iter__(Snap(d.a)) :
        /\ __contains__(Snap(d.b), p)
        /\ __getitem__(Snap(d.a), p).st_mtime # __getitem__(Snap(d.b), p).st_mtime
        /\ __getitem__(Snap(d.a), p).md5 # __getitem__(Snap(d.b), p).md5}

\* mutant: every file of both snapshots counts as modified
modified_all_common(d) ==
    {p \in __iter__(Snap(d.a)) : __contains__(Snap(d.b), p)}

\* self.a[path].md5 != self.b[path].md5
is_modified(a, b) == a.md5 # b.md5

\* SnapshotDiff.modified
modified(d) ==
    {p \in __iter__(Snap(d.a)) :
        /\ __contains__(Snap(d.b), p)
        /\ is_modified(__getitem__(Snap(d.a), p), __getitem__(Snap(d.b), p))}

\* mutant: any difference between the two records counts
touched_any_field(d) ==
    {p \in __iter__(Snap(d.a)) :
        /\ __contains__(Snap(d.b), p)
        /\ __getitem__(Snap(d.a), p) # __getitem__(Snap(d.b), p)
        /\ __getitem__(Snap(d.a), p).md5 = __getitem__(Snap(d.b), p).md5}

\* mutant: the digests are not compared
touched_any_digest(d) ==
    {p \in __iter__(Snap(d.a)) :
        /\ __contains__(Snap(d.b), p)
        /\ __getitem__(Snap(d.a), p).st_mtime # __getitem__(Snap(d.b), p).st_mtime}

\* a.st_mtime != b.st_mtime and a.md5 == b.md5
is_touched(a, b) == a.st_mtime # b.st_mtime /\ a.md5 = b.md5

\* SnapshotDiff.touched
touched(d) ==
    {p \in __iter__(Snap(d.a)) :
        /\ __contains__(Snap(d.b), p)
        /\ is_touched(__getitem__(Snap(d.a), p), __getitem__(Snap(d.b), p))}

\* fn(self), for the four getters
compute(attr, d) ==
    CASE attr = "_added" -> added(d)
      [] attr = "_removed" -> removed(d)
      [] attr = "_modified" -> modified(d)
      [] attr = "_touched" -> touched(d)

\* mutant: the cached value is not looked at
cached_property_uncached(attr, d) ==
    [d EXCEPT ![attr] = Some(compute(attr, d)),
              !.calls = [x \in Attrs |-> IF x = attr THEN d.calls[x] + 1 ELSE d.calls[x]]]

\* granite.utils.cached_property: the object after the property attr was read
cached_property(attr, d) ==
    IF d[attr] = None
        THEN [d EXCEPT ![attr] = Some(compute(attr, d)),
                       !.calls = [x \in Attrs |->
                                     IF x = attr THEN d.calls[x] + 1 ELSE d.calls[x]]]
    ELSE d

\* ------------------------------------------------------------ the test case

\* sys.__stdout__ and sys.__stderr__, the streams the interpreter started with
__stdout__ == [kind |-> "__stdout__", id |-> 0]
__stderr__ == [kind |-> "__stderr__", id |-> 0]

\* no project option, rendered file or captured stream is in play
Idle ==
    /\ preserve = FALSE
    /\ simple = None
    /\ sys = [stdout |-> __stdout__, stderr |-> __stderr__]
    /\ frames = << >>

\* test_diff_attributes up to its first snapshot: removed.txt, touched.txt and
\* modified.txt are written, added.txt is not
SetupFiles ==
    [f \in {<<<<"b">>>>, <<<<"c">>>>, <<<<"a">>, <<"b">>>>} |->
        [content  |-> IF f = <<<<"b">>>> THEN <<"h", "i">> ELSE EMPTY,
         st_mtime |-> 0,
         st_mode  |-> DefaultMode]]

Init ==
    /\ pc = "setup"
    /\ path = ProjectDir
    /\ tree = [dirs |-> {<< >>, <<<<"a">>>>}, files |-> SetupFiles, faulty |-> {}]
    /\ now = 0
    /\ s1 = None
    /\ s2 = None
    /\ diff = None
    /\ ret = None
    /\ taken = << >>
    /\ Idle

\* s1 = self.temp_project.snapshot()
Snapshot1 ==
    /\ pc = "setup"
    /\ \E r \in SnapshotOutcomes(path) :
          IF "OSError" \in DOMAIN r
              THEN /\ ret' = Some([op |-> "Snapshot", arg |-> path, val |-> r])
                   /\ UNCHANGED <<pc, s1, taken>>
          ELSE /\ s1' = Some(r)
               /\ taken' = Append(taken, tree)
               /\ pc' = "mutate"
               /\ UNCHANGED ret
    /\ UNCHANGED <<path, tree, now, s2, diff, others>>

\* s2 = self.temp_project.snapshot()
Snapshot2 ==
    /\ pc = "mutate"
    /\ \E r \in SnapshotOutcomes(path) :
          IF "OSError" \in DOMAIN r
              THEN /\ ret' = Some([op |-> "Snapshot", arg |-> path, val |-> r])
                   /\ UNCHANGED <<pc, s2, taken>>
          ELSE /\ s2' = Some(r)
               /\ taken' = Append(taken, tree)
               /\ pc' = "compare"
               /\ UNCHANGED ret
    /\ UNCHANGED <<path, tree, now, s1, diff, others>>

\* d = a - b: d is bound only when the subtraction returns
Sub(a, b) ==
    /\ pc = "compare"
    /\ IF "TypeError" \in DOMAIN __sub__(a, b)
           THEN /\ ret' = Some([op |-> "__sub__", arg |-> b, val |-> __sub__(a, b)])
                /\ UNCHANGED diff
       ELSE /\ diff' = Some(__sub__(a, b))
            /\ UNCHANGED ret
    /\ UNCHANGED <<pc, path, tree, now, s1, s2, taken, others>>

\* d.added, d.removed, d.modified, d.touched
Access(attr) ==
    /\ pc = "compare"
    /\ diff # None
    /\ diff' = Some(cached_property(attr, Val(diff)))
    /\ UNCHANGED <<pc, path, tree, now, s1, s2, ret, taken, others>>

Next ==
    \/ Snapshot1
    \/ \E f \in WriteNames, c \in WriteCalls : Write(f, c.contents, c.mode, c.dedent)
    \/ \E f \in WriteNames : Remove(f)
    \/ \E f \in WriteNames : ProjectNode(f) \in DOMAIN tree.files /\ Touch(f)
    \/ Tick
    \/ Snapshot2
    \/ \E a \in {"s1", "s2"}, b \in {"s1", "s2"} : a # b /\ Sub(a, b)
    \/ \E attr \in Attrs : Access(attr)

Spec == Init /\ [][Next]_vars

\* ------------------------------------------------- membership and lookup

\* the directories a set of files needs
DirsOf(files) == UNION {Prefixes(Parent(f)) : f \in files} \cup {<< >>}

\* files as write leaves them before the clock has moved
FilesAtStart(files) ==
    [f \in files |->
        [content  |-> IF f = <<<<"b">>>> THEN <<"h", "i">> ELSE EMPTY,
         st_mtime |-> 0,
         st_mode  |-> DefaultMode]]

\* the project directory holds any of the files, and may hold an empty directory
LookupTrees ==
    {[dirs   |-> DirsOf(files) \cup extra,
      files  |-> FilesAtStart(files),
      faulty |-> {}] :
        files \in SUBSET FileNodes, extra \in {{}, {<<<<"a">>>>}}}

InitLookup ==
    /\ pc = "setup"
    /\ path \in Roots
    /\ tree \in LookupTrees
    /\ now = 0
    /\ s1 = None
    /\ s2 = None
    /\ diff = None
    /\ ret = None
    /\ taken = << >>
    /\ Idle

\* path in s1
Contains(p) ==
    /\ s1 # None
    /\ ret' = Some([op |-> "contains", arg |-> p, val |-> __contains__(Val(s1), p)])
    /\ UNCHANGED <<pc, path, tree, now, s1, s2, diff, taken, others>>

\* s1[path]
GetItem(p) ==
    /\ s1 # None
    /\ ret' = Some([op |-> "getitem", arg |-> p, val |-> __getitem__(Val(s1), p)])
    /\ UNCHANGED <<pc, path, tree, now, s1, s2, diff, taken, others>>

\* s1._massage_path(path)
Massage(p) ==
    /\ s1 # None
    /\ ret' = Some([op |-> "_massage_path", arg |-> p, val |-> MassagePath(Val(s1), p)])
    /\ UNCHANGED <<pc, path, tree, now, s1, s2, diff, taken, others>>

NextLookup ==
    \/ Snapshot1
    \/ \E p \in PathArgs : Contains(p)
    \/ \E p \in PathArgs : GetItem(p)
    \/ \E p \in NonStrings \cup {<<"b">>, EMPTY} : Massage(p)

SpecLookup == InitLookup /\ [][NextLookup]_vars

\* ------------------------------------------------- faults of the file system

\* The project directory is missing, or it holds any of the files and the
\* operating system refuses to serve any of its files and directories.
FaultTrees ==
    {[dirs |-> {}, files |-> FilesAtStart({}), faulty |-> {}]}
        \cup UNION {{[dirs   |-> DirsOf(files),
                      files  |-> FilesAtStart(files),
                      faulty |-> faulty] :
                        faulty \in SUBSET (files \cup DirsOf(files))} :
                    files \in SUBSET FileNodes}

InitFault ==
    /\ pc = "setup"
    /\ path \in Roots
    /\ tree \in FaultTrees
    /\ now = 0
    /\ s1 = None
    /\ s2 = None
    /\ diff = None
    /\ ret = None
    /\ taken = << >>
    /\ Idle

NextFault == Snapshot1

SpecFault == InitFault /\ [][NextFault]_vars

\* ------------------------------------------------- the other fields of stat

\* the nodes at or under the node n
Under(n) ==
    {m \in tree.dirs \cup DOMAIN tree.files :
        Len(m) >= Len(n) /\ SubSeq(m, 1, Len(n)) = n}

\* shutil.rmtree(p): p and all it holds are gone
rmtree(p) ==
    [tree EXCEPT !.dirs  = tree.dirs \ Under(NodeOf(p)),
                 !.files = [f \in DOMAIN tree.files \ Under(NodeOf(p)) |-> tree.files[f]]]


\* os.chmod on a file of the project: st_mode changes, st_mtime does not
Chmod(filename, mode) ==
    /\ pc = "mutate"
    /\ ProjectNode(filename) \in DOMAIN tree.files
    /\ tree' = [tree EXCEPT !.files[ProjectNode(filename)].st_mode = mode]
    /\ UNCHANGED <<pc, path, now, s1, s2, diff, ret, taken, others>>

\* os.makedirs(d) in the project, for a directory that is not there
Mkdir(d) ==
    /\ pc = "mutate"
    /\ ~exists(project_abspath(path, d))
    /\ tree' = [tree EXCEPT !.dirs = tree.dirs \cup Prefixes(ProjectNode(d))]
    /\ UNCHANGED <<pc, path, now, s1, s2, diff, ret, taken, others>>

\* shutil.rmtree(d) in the project, for a directory that holds nothing
Rmdir(d) ==
    /\ pc = "mutate"
    /\ Under(ProjectNode(d)) = {ProjectNode(d)}
    /\ ProjectNode(d) \in tree.dirs
    /\ tree' = rmtree(project_abspath(path, d))
    /\ UNCHANGED <<pc, path, now, s1, s2, diff, ret, taken, others>>

\* test_diff_attributes with chmod and the making and removing of an empty
\* directory among the operations between the snapshots, a snapshot
\* subtracted from itself, and test_ds_minus_non_ds's subtraction of 5
NextStat ==
    \/ Snapshot1
    \/ \E f \in {<<"c">>, <<"a", SLASH, "b">>}, m \in Modes : Chmod(f, m)
    \/ \E f \in WriteNames : ProjectNode(f) \in DOMAIN tree.files /\ Touch(f)
    \/ Write(<<"c">>, <<"h", "i">>, <<"w">>, TRUE)
    \/ Remove(<<"b">>)
    \/ Mkdir(<<"a", SLASH, "a">>)
    \/ Rmdir(<<"a", SLASH, "a">>)
    \/ Tick
    \/ Snapshot2
    \/ \E a \in {"s1", "s2"}, b \in Operands : Sub(a, b)
    \/ \E attr \in Attrs : Access(attr)

SpecStat == Init /\ [][NextStat]_vars

\* ------------------------------------------------------ the project's life

\* TemporaryProject.__init__ with a path, as written but for the removal
__init__no_rmtree(p) ==
    IF exists(p) THEN tree
    ELSE [tree EXCEPT !.dirs = tree.dirs \cup Prefixes(NodeOf(p))]

\* TemporaryProject.__init__ with a path: what it leaves on disk
__init__(p) ==
    LET t1 == IF exists(p) THEN rmtree(p) ELSE tree IN
    IF NodeOf(p) \notin t1.dirs /\ NodeOf(p) \notin DOMAIN t1.files
        THEN [t1 EXCEPT !.dirs = t1.dirs \cup Prefixes(NodeOf(p))]
    ELSE t1

\* teardown that does not look at self.preserve
teardown_always ==
    IF exists(path) THEN rmtree(path) ELSE tree

\* TemporaryProject.teardown: what it leaves on disk
teardown ==
    IF ~preserve /\ exists(path) THEN rmtree(path) ELSE tree

\* open() raising for a path: told from contents by its first element
OSError(v) == <<"OSError">> \o v

\* read that opens the filename as given, not self.abspath(filename)
project_read_unjoined(filename) ==
    IF isfile(filename) THEN tree.files[NodeOf(filename)].content
    ELSE OSError(filename)

\* TemporaryProject.read(filename) with mode 'r'
project_read(filename) ==
    IF ProjectNode(filename) \in DOMAIN tree.files
        THEN tree.files[ProjectNode(filename)].content
    ELSE OSError(filename)

\* the paths a project is constructed with: the directory of the test case,
\* relative to the working directory, and a directory inside it
\* (test_custom_temp_dir)
ProjectPaths == {<<"r">>, CustomDir}

\* what the project writes, reads and touches
ProjectNames == {<<"b">>, RelStr(<<<<"a">>, <<"a">>, <<"b">>>>)}
ProjectCalls ==
    WriteCalls \cup {[contents |-> <<SPACE, "h", "i">>, mode |-> <<"w">>, dedent |-> FALSE]}

\* what is on disk before the project is constructed: nothing, not even the
\* directory of the test case, or that directory with any of the files
ProjectTrees ==
    {[dirs |-> {}, files |-> FilesAtStart({}), faulty |-> {}]}
        \cup {[dirs   |-> DirsOf(files),
               files  |-> FilesAtStart(files),
               faulty |-> {}] : files \in {{<<<<"a">>, <<"b">>>>},
                                           {<<<<"b">>>>, <<<<"a">>, <<"b">>>>}}}

InitProject ==
    /\ pc = "setup"
    /\ path = EMPTY
    /\ tree \in ProjectTrees
    /\ now = 0
    /\ s1 = None
    /\ s2 = None
    /\ diff = None
    /\ ret = None
    /\ taken = << >>
    /\ Idle

\* TemporaryProject(path=p, preserve=preserve_arg), where the empty path asks
\* tempfile.mkdtemp for a directory that does not exist yet; taken keeps what
\* was on disk before
Construct(p, preserve_arg) ==
    /\ pc = "setup"
    /\ preserve' = preserve_arg
    /\ IF p # EMPTY
           THEN /\ tree' = __init__(p)
                /\ path' = p
       ELSE \E d \in ProjectPaths :
                /\ ~exists(d)
                /\ tree' = [tree EXCEPT !.dirs = tree.dirs \cup Prefixes(NodeOf(d))]
                /\ path' = d
    /\ taken' = <<tree>>
    /\ pc' = "mutate"
    /\ UNCHANGED <<now, s1, s2, diff, ret, simple, sys, frames>>

\* self.temp_project.read(filename)
Read(filename) ==
    /\ pc = "mutate"
    /\ ret' = Some([op |-> "read", arg |-> filename, val |-> project_read(filename)])
    /\ UNCHANGED <<pc, path, tree, now, s1, s2, diff, taken, others>>

\* self.temp_project.teardown(): the object lives on
Teardown ==
    /\ pc \in {"mutate", "torn"}
    /\ tree' = teardown
    /\ pc' = "torn"
    /\ UNCHANGED <<path, now, s1, s2, diff, ret, taken, others>>

\* TemporaryProject.__del__, when tearDown drops the last reference
Del ==
    /\ pc \in {"mutate", "torn"}
    /\ tree' = teardown
    /\ pc' = "dead"
    /\ UNCHANGED <<path, now, s1, s2, diff, ret, taken, others>>

NextProject ==
    \/ \E p \in ProjectPaths \cup {EMPTY}, b \in BOOLEAN : Construct(p, b)
    \/ \E f \in ProjectNames, c \in ProjectCalls : Write(f, c.contents, c.mode, c.dedent)
    \/ \E f \in ProjectNames : Read(f)
    \/ \E f \in ProjectNames : Touch(f)
    \/ Tick
    \/ Teardown
    \/ Del

SpecProject == InitProject /\ [][NextProject]_vars

\* ------------------------------------------------------------ copy_project

\* os.path.dirname
dirname(p) == pathsplit(p)[1]

\* p names the root of the file system or another directory above the project
\* directory: these are always there
above(p) ==
    LET segs == NonEmpty(split(abspath(p), SLASH)) IN
    Len(segs) < Len(ProjectSegs) /\ segs = SubSeq(ProjectSegs, 1, Len(segs))

\* shutil.copytree(src, dst) on the file system t: the tree t with the copy,
\* and the error raised or "None"; copy2 keeps the times and the modes
copytree(t, src, dst) ==
    LET from  == NodeOf(src)
        to    == NodeOf(dst)
        inner == {m \in t.dirs \cup DOMAIN t.files :
                     Len(m) >= Len(from) /\ SubSeq(m, 1, Len(from)) = from}
        moved == [m \in inner |-> to \o SubSeq(m, Len(from) + 1, Len(m))]
    IN  IF from \notin t.dirs THEN [tree |-> t, raise |-> "FileNotFoundError"]
        ELSE IF above(dst) \/ to \in t.dirs \cup DOMAIN t.files
            THEN [tree |-> t, raise |-> "FileExistsError"]
        ELSE [tree  |-> [t EXCEPT
                            !.dirs  = t.dirs \cup Prefixes(to)
                                          \cup {moved[m] : m \in inner \cap t.dirs},
                            !.files = [f \in DOMAIN t.files
                                                \cup {moved[m] : m \in inner \cap DOMAIN t.files} |->
                                          IF f \in DOMAIN t.files THEN t.files[f]
                                          ELSE t.files[CHOOSE m \in inner : moved[m] = f]]],
              raise |-> "None"]

\* TemporaryProject.copy_project(dest, overwrite): rmtree of a directory above
\* the project directory takes all there is and fails on the root itself
copy_project(dest, overwrite) ==
    IF overwrite /\ (exists(dest) \/ above(dest))
        THEN IF dirname(dest) = dest THEN [tree |-> tree, raise |-> "Exception"]
             ELSE IF above(dest)
                 THEN [tree  |-> [tree EXCEPT !.dirs = {}, !.files = FilesAtStart({})],
                       raise |-> "OSError"]
             ELSE copytree(rmtree(dest), path, dest)
    ELSE copytree(tree, path, dest)

\* where the project is copied to: a directory beside it, and the root of the
\* file system as "/" and as "/."
BesideDir == <<SLASH, "w", SLASH, "r", SLASH, "c">>
Dests == {BesideDir, <<SLASH>>, <<SLASH, DOT>>}

\* the project in CustomDir holds any of its files, and the directory beside
\* it is missing, empty or holds a file
CopyTrees ==
    {[dirs   |-> DirsOf(files \cup beside) \cup {<<<<"a">>>>} \cup extra,
      files  |-> FilesAtStart(files \cup beside),
      faulty |-> {}] :
        files \in SUBSET {<<<<"a">>, <<"b">>>>, <<<<"a">>, <<"a">>, <<"b">>>>},
        beside \in {{}, {<<<<"c">>, <<"b">>>>}},
        extra \in {{}, {<<<<"c">>>>}}}

InitCopy ==
    /\ pc = "mutate"
    /\ path = CustomDir
    /\ tree \in CopyTrees
    /\ now = 0
    /\ s1 = None
    /\ s2 = None
    /\ diff = None
    /\ ret = None
    /\ taken = << >>
    /\ Idle

\* self.temp_project.copy_project(dest, overwrite=overwrite); taken keeps what
\* was on disk before
CopyProject(dest, overwrite) ==
    /\ pc = "mutate"
    /\ tree' = copy_project(dest, overwrite).tree
    /\ ret' = Some([op |-> "copy_project", arg |-> [dest |-> dest, overwrite |-> overwrite],
                    val |-> copy_project(dest, overwrite).raise])
    /\ taken' = <<tree>>
    /\ pc' = "compare"
    /\ UNCHANGED <<path, now, s1, s2, diff, others>>

NextCopy ==
    \/ \E f \in ProjectNames : Write(f, <<"h", "i">>, <<"w">>, TRUE)
    \/ \E d \in Dests, o \in BOOLEAN : CopyProject(d, o)

SpecCopy == InitCopy /\ [][NextCopy]_vars

\* --------------------------------------------------------------- SimpleFile

\* RenderedFile.__init__(filename), with the class attribute ADD_NEWLINE
SimpleFile(filename, add_newline) ==
    [ADD_NEWLINE |-> add_newline,
     full_name   |-> filename,
     path        |-> pathsplit(filename)[1],
     filename    |-> pathsplit(filename)[2],
     content     |-> << >>]

\* RenderedFile.add_content(content): a str is one item, a list its items
add_content(self, content) ==
    [self EXCEPT !.content = IF isinstance(content, "str") THEN Append(self.content, content)
                             ELSE self.content \o Tail(content)]

\* what SimpleFile.render hands to f.write: the conditional expression binds
\* weaker than +
render(self) ==
    IF self.ADD_NEWLINE THEN strjoin(<<NEWLINE>>, self.content) \o <<NEWLINE>> ELSE EMPTY

\* what add_content is called with
Contents == {<<"h", "i">>, <<"h">>, EMPTY, <<"list", <<"h">>, <<"i">>>>}

\* test_that_file_is_written_and_contains_only_contents_provided, set-up: the
\* project directory is there and empty
InitRender ==
    /\ pc = "mutate"
    /\ path = ProjectDir
    /\ tree = [dirs |-> {<< >>}, files |-> FilesAtStart({}), faulty |-> {}]
    /\ now = 0
    /\ s1 = None
    /\ s2 = None
    /\ diff = None
    /\ ret = None
    /\ taken = << >>
    /\ Idle

\* f = SimpleFile(os.path.join(self.temp_project.path, 'b')), of a class
\* that sets ADD_NEWLINE or leaves it
NewSimpleFile(add_newline) ==
    /\ simple = None
    /\ simple' = Some(SimpleFile(join(path, <<"b">>), add_newline))
    /\ UNCHANGED <<pc, path, tree, now, s1, s2, diff, ret, taken, preserve, sys, frames>>

\* f.add_content(content)
AddContent(content) ==
    /\ simple # None
    /\ Len(add_content(Val(simple), content).content) <= MaxContent
    /\ simple' = Some(add_content(Val(simple), content))
    /\ UNCHANGED <<pc, path, tree, now, s1, s2, diff, ret, taken, preserve, sys, frames>>

\* f.render(): open(..., self.WRITE_MODE) with WRITE_MODE 'w', then f.write
Render ==
    /\ simple # None
    /\ tree' = [tree EXCEPT !.files =
                   [f \in DOMAIN tree.files
                             \cup {NodeOf(join(Val(simple).path, Val(simple).filename))} |->
                       IF f = NodeOf(join(Val(simple).path, Val(simple).filename))
                           THEN [content  |-> render(Val(simple)),
                                 st_mtime |-> now,
                                 st_mode  |-> DefaultMode]
                       ELSE tree.files[f]]]
    /\ UNCHANGED <<pc, path, now, s1, s2, diff, ret, taken, others>>

NextRender ==
    \/ \E b \in BOOLEAN : NewSimpleFile(b)
    \/ \E c \in Contents : AddContent(c)
    \/ Tick
    \/ Render

SpecRender == InitRender /\ [][NextRender]_vars

\* --------------------------------------------------------------------- glob

\* fnmatch.fnmatch(name, pat) for patterns of "*", "?" and plain characters;
\* "*" and "?" match the separator as any other character
RECURSIVE fnmatch(_, _)
fnmatch(name, pat) ==
    IF pat = EMPTY THEN name = EMPTY
    ELSE IF pat[1] = "*"
        THEN fnmatch(name, Tail(pat)) \/ (name # EMPTY /\ fnmatch(Tail(name), pat))
    ELSE IF pat[1] = "?" THEN name # EMPTY /\ fnmatch(Tail(name), Tail(pat))
    ELSE name # EMPTY /\ name[1] = pat[1] /\ fnmatch(Tail(name), Tail(pat))

\* glob that searches the whole project whatever start is
glob_from_root(pattern, start, absolute) ==
    IF {f \in DOMAIN tree.files : fnmatch(RelStr(f), pattern)} = {} THEN {None}
    ELSE {Some(IF absolute THEN join(path, RelStr(f)) ELSE RelStr(f)) :
             f \in {g \in DOMAIN tree.files : fnmatch(RelStr(g), pattern)}}

\* the matches glob's loops can meet first in os.walk(top): those among the
\* files of top, else those of any sub-directory, which os.walk takes in the
\* order os.listdir gives
RECURSIVE first_matches(_, _)
first_matches(top, pattern) ==
    IF ~isdir(top) \/ NodeOf(top) \in tree.faulty THEN {}
    ELSE IF \E f \in FileNamesIn(top) : fnmatch(relpath(join(top, f), path), pattern)
        THEN {relpath(join(top, f), path) :
                 f \in {g \in FileNamesIn(top) : fnmatch(relpath(join(top, g), path), pattern)}}
    ELSE UNION {first_matches(join(top, d), pattern) : d \in DirNamesIn(top)}

\* TemporaryProject.glob(pattern, start, absolute): what it may return
glob(pattern, start, absolute) ==
    IF first_matches(join(path, start), pattern) = {} THEN {None}
    ELSE {Some(IF absolute THEN join(path, p) ELSE p) :
             p \in first_matches(join(path, start), pattern)}

\* the patterns and the start directories glob is called with
Patterns ==
    {<<"b">>, <<"*", "b">>, <<"*", SLASH, "b">>, <<"a", SLASH, "*">>, <<"?">>, <<"a">>}
Starts == {EMPTY, <<"a">>, <<"a", SLASH, "a">>, <<"c">>}

\* self.temp_project.glob(pattern, start=start, absolute=absolute)
Glob(pattern, start, absolute) ==
    /\ pc = "setup"
    /\ \E r \in glob(pattern, start, absolute) :
           ret' = Some([op  |-> "glob",
                        arg |-> [pattern |-> pattern, start |-> start, absolute |-> absolute],
                        val |-> r])
    /\ UNCHANGED <<pc, path, tree, now, s1, s2, diff, taken, others>>

NextGlob == \E pattern \in Patterns, start \in Starts, absolute \in BOOLEAN :
                Glob(pattern, start, absolute)

SpecGlob == InitLookup /\ [][NextGlob]_vars

\* --------------------------------------------------------------- granite.io

\* StringIO(): an object that no name refers to yet; the k-th of them
StringIO(k) ==
    LET used == {sys.stdout.id, sys.stderr.id}
                    \cup UNION {{frames[i].before.stdout.id, frames[i].before.stderr.id} :
                                   i \in 1..Len(frames)}
        free == {n \in 1..(2 * MaxDepth + 4) : n \notin used}
    IN  [kind |-> "StringIO",
         id   |-> CHOOSE n \in free : Cardinality({m \in free : m < n}) = k - 1]

\* capture_stdout, capture_stderr and capture_output up to their yield
enter(cm) ==
    CASE cm = "capture_stdout" -> [sys EXCEPT !.stdout = StringIO(1)]
      [] cm = "capture_stderr" -> [sys EXCEPT !.stderr = StringIO(1)]
      [] cm = "capture_output" -> [stdout |-> StringIO(1), stderr |-> StringIO(2)]

\* contextlib's __exit__ on the generator: next() runs the statements after
\* the yield, throw() raises at the yield, which no try statement encloses
exit(cm, raises) ==
    IF raises THEN sys
    ELSE CASE cm = "capture_stdout" -> [sys EXCEPT !.stdout = __stdout__]
           [] cm = "capture_stderr" -> [sys EXCEPT !.stderr = __stderr__]
           [] cm = "capture_output" -> [stdout |-> __stdout__, stderr |-> __stderr__]

\* the streams a test runner may have put in place of the interpreter's
Runner == [stdout |-> [kind |-> "runner", id |-> 0], stderr |-> [kind |-> "runner", id |-> -1]]

InitIO ==
    /\ pc = "setup"
    /\ path = ProjectDir
    /\ tree = [dirs |-> {<< >>}, files |-> FilesAtStart({}), faulty |-> {}]
    /\ now = 0
    /\ s1 = None
    /\ s2 = None
    /\ diff = None
    /\ ret = None
    /\ taken = << >>
    /\ preserve = FALSE
    /\ simple = None
    /\ sys \in {[stdout |-> o, stderr |-> e] : o \in {__stdout__, Runner.stdout},
                                                e \in {__stderr__, Runner.stderr}}
    /\ frames = << >>

\* with cm() as ...: the block is entered; before keeps what sys.stdout and
\* sys.stderr were
Enter(cm) ==
    /\ Len(frames) < MaxDepth
    /\ sys' = enter(cm)
    /\ frames' = Append(frames, [cm |-> cm, before |-> sys])
    /\ UNCHANGED <<pc, path, tree, now, s1, s2, diff, ret, taken, preserve, simple>>

\* the innermost block ends, by reaching its end or by an exception raised
\* in it
Exit(raises) ==
    /\ frames # << >>
    /\ sys' = exit(frames[Len(frames)].cm, raises)
    /\ frames' = SubSeq(frames, 1, Len(frames) - 1)
    /\ UNCHANGED <<pc, path, tree, now, s1, s2, diff, ret, taken, preserve, simple>>

NextIO ==
    \/ \E cm \in {"capture_stdout", "capture_stderr", "capture_output"} : Enter(cm)
    \/ \E raises \in BOOLEAN : Exit(raises)

SpecIO == InitIO /\ [][NextIO]_vars

\* ------------------------------------------------------------------ claims

\* the diff object, its two snapshots' dictionaries, and a computed attribute
D == Val(diff)
PathsA == Snap(D.a).paths
PathsB == Snap(D.b).paths
Computed(attr) == diff # None /\ D[attr] # None
Both == DOMAIN PathsA \cap DOMAIN PathsB

\* the directory when the first and when the second snapshot was taken
Files1 == taken[1].files
Files2 == taken[2].files
Kept == DOMAIN Files1 \cap DOMAIN Files2
IsLaterMinusEarlier == diff # None /\ D.a = "s2" /\ D.b = "s1"

Written == {RelStr(n) : n \in DOMAIN Files2 \ DOMAIN Files1}
Deleted == {RelStr(n) : n \in DOMAIN Files1 \ DOMAIN Files2}
Rewritten == {RelStr(n) : n \in {k \in Kept : Files1[k].content # Files2[k].content}}
Stamped ==
    {RelStr(n) : n \in {k \in Kept : /\ Files1[k].content = Files2[k].content
                                     /\ Files1[k].st_mtime # Files2[k].st_mtime}}

\* C1: when s1 and s2 are snapshots of the project directory, s2 the later one,
\* (s2 - s1).added is exactly the files written in between that did not exist,
\* .removed the files removed, .modified the files whose content was rewritten
\* to something else and .touched the files whose modification time changed
\* while their content did not; no other path is in any of the four sets.
C1_DiffOfScenario ==
    IsLaterMinusEarlier =>
        /\ D._added # None => Val(D._added) = Written
        /\ D._removed # None => Val(D._removed) = Deleted
        /\ D._modified # None => Val(D._modified) = Rewritten
        /\ D._touched # None => Val(D._touched) = Stamped

\* the scenario of test_diff_attributes: one file of each kind, all four read
C1_Witness ==
    /\ IsLaterMinusEarlier
    /\ \A attr \in Attrs : Computed(attr)
    /\ Val(D._added) = {<<"a", SLASH, "a", SLASH, "b">>}
    /\ Val(D._removed) = {<<"b">>}
    /\ Val(D._modified) = {<<"a", SLASH, "b">>}
    /\ Val(D._touched) = {<<"c">>}
    /\ Cardinality(DOMAIN Files2) = 3

\* C2: (a - b).added is exactly the set of keys of a that are not keys of b.
C2_AddedIsKeysOfAOnly ==
    Computed("_added") => Val(D._added) = DOMAIN PathsA \ DOMAIN PathsB

C2_Witness ==
    /\ Computed("_added")
    /\ Val(D._added) # {}
    /\ Both # {}
    /\ DOMAIN PathsB \ DOMAIN PathsA # {}

\* C3: (a - b).removed is exactly the set of keys of b that are not keys of a.
C3_RemovedIsKeysOfBOnly ==
    Computed("_removed") => Val(D._removed) = DOMAIN PathsB \ DOMAIN PathsA

C3_Witness ==
    /\ Computed("_removed")
    /\ Val(D._removed) # {}
    /\ Both # {}
    /\ DOMAIN PathsA \ DOMAIN PathsB # {}

\* C4: (a - b).modified is exactly the set of keys of both a and b whose digests
\* differ, whether their modification times differ or not.
C4_ModifiedIsDigestDiffers ==
    Computed("_modified") =>
        Val(D._modified) = {k \in Both : PathsA[k].md5 # PathsB[k].md5}

\* one modified file kept its modification time, another one did not, and a
\* third file has a new modification time and is not modified
C4_Witness ==
    /\ Computed("_modified")
    /\ \E k \in Val(D._modified) : PathsA[k].st_mtime = PathsB[k].st_mtime
    /\ \E k \in Val(D._modified) : PathsA[k].st_mtime # PathsB[k].st_mtime
    /\ \E k \in Both \ Val(D._modified) : PathsA[k].st_mtime # PathsB[k].st_mtime

\* C5: (a - b).touched is exactly the set of keys of both a and b whose digests
\* are equal and whose modification times differ.
C5_TouchedIsMtimeOnly ==
    Computed("_touched") =>
        Val(D._touched) = {k \in Both : /\ PathsA[k].md5 = PathsB[k].md5
                                        /\ PathsA[k].st_mtime # PathsB[k].st_mtime}

\* a touched file, beside one whose time and content changed and an untouched one
C5_Witness ==
    /\ Computed("_touched")
    /\ Val(D._touched) # {}
    /\ \E k \in Both \ Val(D._touched) : PathsA[k].st_mtime # PathsB[k].st_mtime
    /\ \E k \in Both : PathsA[k] = PathsB[k]

\* what membership, lookup and iteration of a snapshot return
Answers(s) ==
    [keys     |-> __iter__(Val(s)),
     contains |-> [p \in WriteNames |-> __contains__(Val(s), p)],
     getitem  |-> [p \in WriteNames |-> __getitem__(Val(s), p)]]

\* C6: no step taken after a snapshot was constructed (write, remove, touch,
\* rewrite, the passing of time, another snapshot, a diff) changes the snapshot's
\* keys or records, or what membership, lookup and iteration return.
C6_SnapshotIsFrozen ==
    [][/\ s1 # None => s1' = s1 /\ Answers(s1)' = Answers(s1)
       /\ s2 # None => s2' = s2 /\ Answers(s2)' = Answers(s2)]_vars

\* the snapshot still holds a file that was removed, and the old record of a
\* file that was rewritten
C6_Witness ==
    /\ s1 # None
    /\ \E n \in DOMAIN Files1 : /\ n \notin DOMAIN tree.files
                                /\ __contains__(Val(s1), RelStr(n))
    /\ \E n \in DOMAIN Files1 \cap DOMAIN tree.files :
            /\ tree.files[n].content # Files1[n].content
            /\ __getitem__(Val(s1), RelStr(n)).st_size = Len(Files1[n].content)

\* C8: two snapshots of a directory that no operation changed in between give
\* empty added, removed and modified sets, whichever is subtracted from the other.
C8_UnchangedDirectoryDiffsEmpty ==
    diff # None /\ taken[1] = taken[2] =>
        \A attr \in {"_added", "_removed", "_modified"} : D[attr] \in {None, Some({})}

\* time has passed between the two snapshots of a directory with files in it
C8_Witness ==
    /\ diff # None
    /\ taken[1] = taken[2]
    /\ DOMAIN Files1 # {}
    /\ now > 0
    /\ D.a = "s1"
    /\ \A attr \in {"_added", "_removed", "_modified"} : D[attr] = Some({})

\* C10: (a - b).added equals (b - a).removed and (a - b).removed equals
\* (b - a).added.
C10_AddedIsRemovedOfReverse ==
    /\ Computed("_added") => Val(D._added) = removed(SnapshotDiff(D.b, D.a))
    /\ Computed("_removed") => Val(D._removed) = added(SnapshotDiff(D.b, D.a))

C10_Witness ==
    /\ Computed("_added")
    /\ Computed("_removed")
    /\ Val(D._added) # {}
    /\ Val(D._removed) # {}
    /\ Val(D._added) # Val(D._removed)
    /\ Both # {}

\* ---- membership and lookup (SpecLookup)

\* the last answer of Contains or GetItem
R == Val(ret)
Asked(op) == ret # None /\ R.op = op

\* What a path denotes, read name by name from the snapshot's directory (from
\* the top when it is absolute): "." stays, ".." goes up, a name goes down.
\* Both separators separate.
RECURSIVE Follow(_, _, _)
Follow(names, i, at) ==
    IF i > Len(names) THEN at
    ELSE IF names[i] \in {EMPTY, CURDIR} THEN Follow(names, i + 1, at)
    ELSE IF names[i] = PARDIR
        THEN Follow(names, i + 1, IF at = << >> THEN at ELSE SubSeq(at, 1, Len(at) - 1))
    ELSE Follow(names, i + 1, Append(at, names[i]))

Denotes(p) ==
    LET names == split([i \in 1..Len(p) |-> IF p[i] = BACKSLASH THEN SLASH ELSE p[i]], SLASH)
        at    == Follow(names, 1, IF p # EMPTY /\ p[1] = SLASH THEN << >> ELSE ProjectSegs)
    IN  IF Len(at) >= Len(ProjectSegs) /\ SubSeq(at, 1, Len(ProjectSegs)) = ProjectSegs
            THEN SubSeq(at, Len(ProjectSegs) + 1, Len(at))
        ELSE Outside

\* C7: a snapshot of a directory has a key for every file under it, at any
\* depth, and for nothing else: membership is true of every file's relative and
\* absolute path, and false of every path that denotes no file under the
\* directory, paths that leave it through ".." included.
C7_SnapshotHoldsExactlyTheFiles ==
    s1 # None =>
        /\ __iter__(Val(s1)) = {RelStr(n) : n \in DOMAIN tree.files}
        /\ Asked("contains") /\ isinstance(R.arg, "str") =>
              /\ (\E n \in DOMAIN tree.files : R.arg \in {RelStr(n), PathStr(ProjectDir, n)})
                    => R.val
              /\ R.val => Denotes(R.arg) \in DOMAIN tree.files

\* a file two directories down is found by its absolute path, in a snapshot
\* whose root was given as a relative path
C7_Witness ==
    /\ Asked("contains")
    /\ path = <<"r">>
    /\ R.arg = PathStr(ProjectDir, <<<<"a">>, <<"a">>, <<"b">>>>)
    /\ R.val
    /\ Cardinality(DOMAIN tree.files) = 4

\* what membership and lookup answer for the key the constructor stores for n
AnswersAsKeyOf(n) ==
    LET key   == RelStr(n)
        paths == Val(s1).paths
    IN  /\ n \in DOMAIN tree.files <=> key \in DOMAIN paths
        /\ R.op = "contains" => R.val = (key \in DOMAIN paths)
        /\ R.op = "getitem" =>
              IF key \in DOMAIN paths THEN R.val = paths[key]
              ELSE DOMAIN R.val = {"KeyError"}

\* C9: membership and lookup give every spelling of a file's path (relative,
\* with redundant "./" or "x/../" segments, with backslash separators, absolute)
\* the answer they give the key the constructor stored for that file.
C9_SpellingsAgree ==
    ret # None =>
        \A n \in FileNodes :
            R.arg \in Spellings(n) \cup BackslashSpellings(n) => AnswersAsKeyOf(n)

\* what does hold: the spellings whose redundant segments are set off by "/"
\* agree, whatever separates the names
SpellingsSetOffBySlashAgree ==
    ret # None => \A n \in FileNodes : R.arg \in Spellings(n) => AnswersAsKeyOf(n)
\* ---- the four sets (Spec)

\* C11: the sets added, removed, modified and touched of a - b that have been
\* computed are pairwise disjoint, for both orders of the two snapshots; no path
\* is both modified and touched.
C11_SetsPairwiseDisjoint ==
    diff # None =>
        \A x \in Attrs, y \in Attrs :
            x # y /\ D[x] # None /\ D[y] # None => Val(D[x]) \cap Val(D[y]) = {}

\* the earlier snapshot minus the later one, with a file in each of the four
C11_Witness ==
    /\ diff # None
    /\ D.a = "s1"
    /\ \A attr \in Attrs : Computed(attr) /\ Val(D[attr]) # {}

\* ---- subtraction of a value that is no snapshot (SpecStat)

\* C12: a step that subtracts the integer 5 from a snapshot raises TypeError and
\* binds no diff object: the diff the test case holds, if any, stays as it was,
\* and no diff object ever has an operand that is not a snapshot.
C12_SubOfNonSnapshotRaises ==
    [][/\ \A a \in {"s1", "s2"} :
             Sub(a, "5") => /\ diff' = diff
                            /\ ret' # None
                            /\ Val(ret').op = "__sub__"
                            /\ DOMAIN Val(ret').val = {"TypeError"}
       /\ diff' # None => isinstance_Snapshot(Val(diff').b)]_vars

\* s2 - 5 has raised before any diff was made
C12_Witness ==
    /\ ret # None
    /\ Val(ret).op = "__sub__"
    /\ Val(ret).arg = "5"
    /\ DOMAIN Val(ret).val = {"TypeError"}
    /\ diff = None
\* ---- paths that are no str, paths that are not tracked (SpecLookup)

\* the exception the last recorded call raised, "" when it returned
Raised ==
    IF R.op = "_massage_path" THEN (IF raised(R.val) THEN R.val[1] ELSE "")
    ELSE IF isinstance(R.arg, "str") /\ R.op = "contains" THEN ""
    ELSE IF DOMAIN R.val \subseteq {"ValueError", "TypeError", "KeyError"}
        THEN CHOOSE e \in DOMAIN R.val : TRUE
    ELSE ""

\* C13, as the specification has it: _massage_path, membership and lookup raise
\* TypeError when the path is not a str.
C13_NonStringRaisesTypeError ==
    ret # None /\ ~isinstance(R.arg, "str") => Raised = "TypeError"

\* C13, as the code has it: _massage_path, membership and lookup raise
\* ValueError when the path is not a str (an int, None, bytes).
C13_NonStringRaisesValueError ==
    ret # None /\ ~isinstance(R.arg, "str") => Raised = "ValueError"

\* the lookup s1[5] has raised
C13_Witness ==
    /\ Asked("getitem")
    /\ R.arg = <<"int", "5">>
    /\ Raised = "ValueError"

\* C14: _massage_path of a value that is not a str raises ValueError carrying
\* that value, whatever the snapshot's root and keys are: nothing was joined or
\* looked up.
C14_MassagePathValidatesFirst ==
    Asked("_massage_path") /\ R.arg \in NonStrings => R.val = ValueError(R.arg)

\* test_massage_path: s._massage_path(5) on a snapshot of a relative root
C14_Witness ==
    /\ Asked("_massage_path")
    /\ R.arg = <<"int", "5">>
    /\ R.val = ValueError(R.arg)
    /\ path = <<"r">>
    /\ DOMAIN Val(s1).paths # {}

\* C15: for a str path, membership returns whether the path's key is a key of
\* the snapshot and never raises; lookup returns the stored record when it is and
\* raises KeyError when it is not.  The key of a file's relative or absolute
\* path is tracked exactly when the file was there.
C15_UntrackedLookupRaisesMembershipFalse ==
    ret # None /\ isinstance(R.arg, "str") /\ R.op \in {"contains", "getitem"} =>
        LET paths   == Val(s1).paths
            key     == MassagePath(Val(s1), R.arg)
            tracked == key \in DOMAIN paths
        IN  /\ R.op = "contains" => R.val = tracked
            /\ R.op = "getitem" =>
                  IF tracked THEN R.val = paths[key] ELSE DOMAIN R.val = {"KeyError"}
            /\ \A n \in FileNodes :
                  R.arg \in {RelStr(n), PathStr(ProjectDir, n)} =>
                      /\ tracked <=> n \in DOMAIN tree.files
                      /\ tracked /\ R.op = "getitem" =>
                            /\ R.val.st_size = Len(tree.files[n].content)
                            /\ R.val.st_mtime = tree.files[n].st_mtime

\* a lookup of a name that is not there has raised, in a snapshot with files
C15_Witness ==
    /\ Asked("getitem")
    /\ R.arg = <<"x">>
    /\ DOMAIN R.val = {"KeyError"}
    /\ DOMAIN Val(s1).paths # {}
\* ---- faults of the file system (SpecFault)

\* the constructor has run: it returned a snapshot or it raised
Constructed == s1 # None \/ ret # None

\* the directories above a node
Ancestors(n) == {SubSeq(n, 1, k) : k \in 0..(Len(n) - 1)}

\* the directories the walk comes to list and the files it comes to read: those
\* with nothing above them that cannot be listed
WalkDirs == {d \in tree.dirs : Ancestors(d) \cap tree.faulty = {}}
MetFiles == {f \in DOMAIN tree.files : Ancestors(f) \cap tree.faulty = {}}

\* C16: when the root directory does not exist, or it or a directory below it
\* cannot be listed, the constructor raises an I/O error and returns no snapshot.
C16_WalkFailureRaises ==
    Constructed /\ (tree.dirs = {} \/ WalkDirs \cap tree.faulty # {}) =>
        /\ s1 = None
        /\ DOMAIN R.val = {"OSError"}

\* C17: when a file the walk meets cannot be stat-ed, opened or read, the
\* constructor raises the I/O error of such a file and returns no snapshot; a
\* snapshot that is returned has a key for every file the walk met.
C17_UnreadableFileAborts ==
    Constructed =>
        /\ MetFiles \cap tree.faulty # {} =>
              /\ s1 = None
              /\ R.op = "Snapshot"
              /\ \E f \in MetFiles \cap tree.faulty :
                    R.val = [OSError |-> PathStr(path, f)]
        /\ s1 # None => __iter__(Val(s1)) = {RelStr(f) : f \in MetFiles}

\* the only file that cannot be read lies two directories down, among three
\* files that can
C17_Witness ==
    /\ s1 = None
    /\ ret # None
    /\ R.val = [OSError |-> PathStr(path, <<<<"a">>, <<"a">>, <<"b">>>>)]
    /\ tree.faulty = {<<<<"a">>, <<"a">>, <<"b">>>>}
    /\ Cardinality(DOMAIN tree.files) = 4
\* ---- caching (Spec)

\* C18: reading a property of a diff leaves the property computed; a property
\* that was computed keeps its value, the empty set included, and its getter is
\* not run again; the other three properties and their getters' call counts stay
\* as they were.  No getter ever runs twice.
C18_ComputedOnceAndCached ==
    [][/\ \A attr \in Attrs :
             Access(attr) =>
                 /\ Val(diff')[attr] # None
                 /\ D[attr] # None =>
                       /\ Val(diff')[attr] = D[attr]
                       /\ Val(diff').calls[attr] = D.calls[attr]
                 /\ \A other \in Attrs \ {attr} :
                       /\ Val(diff')[other] = D[other]
                       /\ Val(diff').calls[other] = D.calls[other]
       /\ diff' # None => \A attr \in Attrs : Val(diff').calls[attr] <= 1]_vars

\* all four have been read; an empty one and a non-empty one are cached
C18_Witness ==
    /\ diff # None
    /\ \A attr \in Attrs : Computed(attr) /\ D.calls[attr] = 1
    /\ D._added = Some({})
    /\ D._modified # Some({})

\* ---- the fields the diff does not read (SpecStat)

\* C19: a path of both snapshots whose digest and modification time are equal
\* in both is in none of the computed sets, whatever its st_mode is in each.
C19_OtherFieldsIgnored ==
    diff # None =>
        \A k \in Both :
            PathsA[k].md5 = PathsB[k].md5 /\ PathsA[k].st_mtime = PathsB[k].st_mtime =>
                \A attr \in Attrs : D[attr] # None => k \notin Val(D[attr])

\* a file whose mode alone changed, beside a touched one whose mode changed too
C19_Witness ==
    /\ diff # None
    /\ \A attr \in Attrs : Computed(attr)
    /\ \E k \in Both : /\ PathsA[k].md5 = PathsB[k].md5
                         /\ PathsA[k].st_mtime = PathsB[k].st_mtime
                         /\ PathsA[k].st_mode # PathsB[k].st_mode
    /\ \E k \in Val(D._touched) : PathsA[k].st_mode # PathsB[k].st_mode

\* ---- write on a file that exists (Spec)

\* what write hands to f.write
Data(c) ==
    IF c.dedent /\ \A i \in 1..Len(c.mode) : c.mode[i] # "b" THEN dedent(c.contents)
    ELSE c.contents

\* C20: write on a file that exists leaves the new contents in it, and with an
\* append mode ('a') the old contents followed by the new.
C20_WriteAppendsInAppendMode ==
    [][\A f \in WriteNames, c \in WriteCalls :
          Write(f, c.contents, c.mode, c.dedent) /\ ProjectNode(f) \in DOMAIN tree.files =>
              tree'.files[ProjectNode(f)].content =
                  IF c.mode[1] = "a"
                      THEN tree.files[ProjectNode(f)].content \o Data(c)
                  ELSE Data(c)]_vars

\* what does hold: write on a file that exists leaves the new contents in it,
\* whatever the mode
WriteReplaces ==
    [][\A f \in WriteNames, c \in WriteCalls :
          Write(f, c.contents, c.mode, c.dedent) /\ ProjectNode(f) \in DOMAIN tree.files =>
              tree'.files[ProjectNode(f)].content = Data(c)]_vars

\* ---- write and read back (SpecProject)

C22_TouchCreatesOrStamps ==
    [][\A f \in ProjectNames :
          Touch(f) =>
              /\ ProjectNode(f) \in DOMAIN tree'.files
              /\ ProjectNode(f) \in DOMAIN tree.files =>
                     /\ tree'.files[ProjectNode(f)].content = tree.files[ProjectNode(f)].content
                     /\ tree'.files[ProjectNode(f)].st_mtime = now]_vars

\* what does hold: touch stamps a file that exists and leaves its contents
TouchStampsExisting ==
    [][\A f \in ProjectNames :
          Touch(f) /\ ProjectNode(f) \in DOMAIN tree.files =>
              /\ tree'.files[ProjectNode(f)].content = tree.files[ProjectNode(f)].content
              /\ tree'.files[ProjectNode(f)].st_mtime = now]_vars

\* ---- the life of the directory (SpecProject)

Held(t, n) ==
    {[at   |-> SubSeq(m, Len(n) + 1, Len(m)),
      file |-> IF m \in DOMAIN t.files THEN Some(t.files[m]) ELSE None] :
        m \in {k \in t.dirs \cup DOMAIN t.files :
                  Len(k) >= Len(n) /\ SubSeq(k, 1, Len(n)) = n}}

\* C25: copy_project(dest) raises an error and leaves dest as it is when dest
\* exists and overwrite is false; with overwrite true a dest that exists is
\* removed first and then holds exactly a copy of the project; a dest that is
\* the root of the file system is refused with an error and nothing is deleted.
C25_CopyProjectOverwriteAndRoot ==
    [][\A d \in Dests, o \in BOOLEAN :
          CopyProject(d, o) =>
              /\ (exists(d) \/ above(d)) /\ ~o =>
                     Val(ret').val # "None" /\ tree' = tree
              /\ abspath(d) = <<SLASH>> =>
                     Val(ret').val # "None" /\ tree' = tree
              /\ o /\ abspath(d) # <<SLASH>> =>
                     /\ Val(ret').val = "None"
                     /\ Held(tree', NodeOf(d)) = Held(tree, NodeOf(path))
                     /\ Held(tree', NodeOf(path)) = Held(tree, NodeOf(path))]_vars

\* what does hold: the same with only the spellings of the root that are
\* their own dirname ("/", "//") refused
CopyProjectRefusesOwnDirname ==
    [][\A d \in Dests, o \in BOOLEAN :
          CopyProject(d, o) =>
              /\ (exists(d) \/ above(d)) /\ ~o =>
                     Val(ret').val # "None" /\ tree' = tree
              /\ dirname(d) = d =>
                     Val(ret').val # "None" /\ tree' = tree
              /\ o /\ ~above(d) =>
                     /\ Val(ret').val = "None"
                     /\ Held(tree', NodeOf(d)) = Held(tree, NodeOf(path))
                     /\ Held(tree', NodeOf(path)) = Held(tree, NodeOf(path))]_vars

\* ---- ADD_NEWLINE (SpecRender)

\* C26: ADD_NEWLINE only decides on the newline at the end: when it is true
\* the file holds the added contents joined by newlines, in the order they
\* were added, followed by one newline; when it is false it holds the same
\* without the newline at the end.
C26_AddNewlineOnlyDecidesLastNewline ==
    [][Render =>
          tree'.files[<<<<"b">>>>].content =
              strjoin(<<NEWLINE>>, Val(simple).content)
                  \o (IF Val(simple).ADD_NEWLINE THEN <<NEWLINE>> ELSE EMPTY)]_vars

\* what does hold: with ADD_NEWLINE the joined contents and a newline, and
\* without it an empty file
RenderWritesNothingWithoutNewline ==
    [][Render =>
          tree'.files[<<<<"b">>>>].content =
              IF Val(simple).ADD_NEWLINE
                  THEN strjoin(<<NEWLINE>>, Val(simple).content) \o <<NEWLINE>>
              ELSE EMPTY]_vars

\* ---- glob (SpecGlob)

\* the files under the directory start of the project whose path from the
\* project directory matches the pattern
MatchesUnder(start, pattern) ==
    {n \in DOMAIN tree.files :
        /\ Len(n) > Len(ProjectNode(start))
        /\ SubSeq(n, 1, Len(ProjectNode(start))) = ProjectNode(start)
        /\ fnmatch(RelStr(n), pattern)}

AllComputed ==
    diff # None /\ \A attr \in {"_added", "_removed", "_modified", "_touched"} : D[attr] # None

\* C28: a snapshot has entries only for files, never one for a directory, and
\* the making or removing of an empty directory between two snapshots leaves
\* added, removed, modified and touched empty.
C28_OnlyFilesAreTracked ==
    /\ s1 # None =>
           /\ DOMAIN Val(s1).paths = {RelStr(f) : f \in DOMAIN taken[1].files}
           /\ \A d \in taken[1].dirs : RelStr(d) \notin DOMAIN Val(s1).paths
    /\ s2 # None =>
           /\ DOMAIN Val(s2).paths = {RelStr(f) : f \in DOMAIN taken[2].files}
           /\ \A d \in taken[2].dirs : RelStr(d) \notin DOMAIN Val(s2).paths
    /\ AllComputed /\ taken[1].files = taken[2].files =>
           \A attr \in {"_added", "_removed", "_modified", "_touched"} : D[attr] = Some({})

\* an empty directory was made between the snapshots and nothing else was done
C28_Witness ==
    /\ AllComputed
    /\ D.a = "s2"
    /\ D.b = "s1"
    /\ taken[1].files = taken[2].files
    /\ <<<<"a">>, <<"a">>>> \in taken[2].dirs \ taken[1].dirs
    /\ \A attr \in {"_added", "_removed", "_modified", "_touched"} : D[attr] = Some({})

\* ---- the classes of a diff (SpecStat)

\* the keys of both snapshots with the same digest and modification time
Unchanged ==
    {k \in Both : PathsA[k].md5 = PathsB[k].md5 /\ PathsA[k].st_mtime = PathsB[k].st_mtime}

\* C29: every key of a or b is in exactly one of added, removed, modified,
\* touched and unchanged; added, modified and touched hold keys of a, removed
\* holds keys of b; and a - a has all four sets empty.
C29_ClassesPartitionTheKeys ==
    AllComputed =>
        /\ \A k \in DOMAIN PathsA \cup DOMAIN PathsB :
               Cardinality({c \in {Val(D._added), Val(D._removed), Val(D._modified),
                                   Val(D._touched), Unchanged} : k \in c}) = 1
        /\ (Val(D._added) \cap Val(D._removed)) \cup (Val(D._modified) \cap Val(D._touched)) = {}
        /\ Val(D._added) \cup Val(D._modified) \cup Val(D._touched) \subseteq DOMAIN PathsA
        /\ Val(D._removed) \subseteq DOMAIN PathsB
        /\ D.a = D.b =>
               \A attr \in {"_added", "_removed", "_modified", "_touched"} : D[attr] = Some({})

\* a diff of two snapshots with a file of each of three classes
C29_Witness ==
    /\ AllComputed
    /\ D.a # D.b
    /\ Val(D._removed) # {}
    /\ Val(D._modified) # {}
    /\ Val(D._touched) # {}

\* a snapshot was subtracted from itself, after the directory had changed
SelfDiffIsEmpty ==
    /\ AllComputed
    /\ D.a = D.b
    /\ taken[1].files # taken[2].files
    /\ \A attr \in {"_added", "_removed", "_modified", "_touched"} : D[attr] = Some({})

\* ---- the captured streams (SpecIO)

\* C30: when a capture_stdout, capture_stderr or capture_output block ends,
\* by reaching its end or by an exception, nested blocks included, sys.stdout
\* and sys.stderr are again the stream objects they were before the block.
C30_StreamsRestoredAfterBlock ==
    [][\A raises \in BOOLEAN : Exit(raises) => sys' = frames[Len(frames)].before]_vars

\* what does hold: a block that reaches its end leaves the interpreter's own
\* streams in place of the ones it captured, and a block that ends by an
\* exception leaves sys.stdout and sys.stderr as they were inside it
BlockEndLeavesInterpreterStreams ==
    [][/\ Exit(FALSE) =>
             /\ frames[Len(frames)].cm # "capture_stderr" => sys'.stdout = __stdout__
             /\ frames[Len(frames)].cm # "capture_stdout" => sys'.stderr = __stderr__
       /\ Exit(TRUE) => sys' = sys]_vars
====
